---- MODULE Spec2Model ----
(***************************************************************************)
(* A model of src/game_theory_network.py: the round engine of              *)
(* NetworkSecurityGame (play_round, run_game) and the decision policies    *)
(* PassiveDefender, RandomAttacker and EnhancedTitForTat.                  *)
(*                                                                         *)
(* The action strings of the source are written in ASCII:                  *)
(*   '防御' = "Defend"        '不防御' = "DoNotDefend"                       *)
(*   '攻击' = "Attack"        '不攻击' = "DoNotAttack"                       *)
(* and the score keys '防守方' = defender, '攻击方' = attacker.               *)
(*                                                                         *)
(* random.random() returns a float in [0, 1); a draw is modelled in        *)
(* hundredths (an integer 0..99), and so are the probabilities and the     *)
(* thresholds it is compared with.  aggressive_rate is the quotient of two *)
(* small integers, kept as the pair (num, den); count/len > 0.7 is decided *)
(* as 100*count > 70*len, which agrees with the float comparison because   *)
(* count/len is correctly rounded and, for den far below 2^52, two         *)
(* different rationals num/den and 7/10 never round to the same float.     *)
(***************************************************************************)
EXTENDS Integers, Sequences, FiniteSets, TLC

VARIABLES
    history,      \* self.history: the list of round records
    scores,       \* self.scores
    pc,           \* position of the single thread of control
    call,         \* which method the caller invoked: run_game or play_round
    outcome,      \* how the last call ended: returned, or the exception raised
    strategy_a,   \* the callables handed to the call in progress
    strategy_b,
    rounds,       \* run_game's parameter
    i,            \* iterations of run_game's for loop completed so far
    start_len,    \* len(self.history) when the call in progress was entered
    arg_a,        \* the history strategy_a was called with in this round
    arg_b,        \* the history strategy_b was called with in this round
    decision_a,   \* locals of play_round
    decision_b,
    payoff_a,
    payoff_b,
    u_self,       \* policy unit: the policy object under call
    u_history,    \* policy unit: the history argument
    u_draw,       \* policy unit: the value the random source yields if asked
    u_pc,         \* policy unit: ready, analyzed, decided
    u_result,     \* policy unit: what the method returned
    rng_calls,    \* policy unit: calls made to the random source
    heap,         \* driver: the objects the sessions hold, by address
    games,        \* driver: the NetworkSecurityGame objects constructed so far
    runs,         \* driver: per session, the calls made on it and the position
                  \*         of the random source in its sequence of draws
    tape,         \* driver: the sequence of values the random source yields
    defender_strategies,   \* driver: the defender policy instance, reused
    attacker_strategies, \* driver: the attacker policy instance, reused
    last_call     \* driver: the call made last

game_vars == <<history, scores, pc, call, outcome, strategy_a, strategy_b,
               rounds, i, start_len, arg_a, arg_b,
               decision_a, decision_b, payoff_a, payoff_b>>
unit_vars == <<u_self, u_history, u_draw, u_pc, u_result, rng_calls>>
driver_vars == <<heap, games, runs, tape, defender_strategies,
                 attacker_strategies, last_call>>
vars == <<game_vars, unit_vars, driver_vars>>

----------------------------------------------------------------------------
(* Bounds of the model *)

\* longest history a session of Spec grows
MaxHist == 3
\* longest history handed to a policy in SpecPolicy
MaxLen == 4
\* largest memory_size of an EnhancedTitForTat in SpecPolicy
MaxMem == 4
\* the round count of the end-to-end scenario
E2ERounds == 10
\* most calls to the random source an object of SpecObjects lives through
MaxRngCalls == 2

----------------------------------------------------------------------------
(* Values *)

DefenderActions == {"Defend", "DoNotDefend"}
AttackerActions == {"Attack", "DoNotAttack"}

\* a value outside both domains, as an arbitrary callable may return
BadAction == "Other"

Max(x, y) == IF x >= y THEN x ELSE y
Min(x, y) == IF x <= y THEN x ELSE y

\* payoff_matrix with the two payoffs under attack exchanged
payoff_matrix_AttackRowsSwapped ==
    ( <<"Defend", "DoNotAttack">>      :> <<3, 3>>  ) @@
    ( <<"Defend", "Attack">>           :> <<-8, 8>> ) @@
    ( <<"DoNotDefend", "Attack">>      :> <<-2, 1>> ) @@
    ( <<"DoNotDefend", "DoNotAttack">> :> <<4, 4>>  )

\* self.payoff_matrix, a dict keyed by the pair of decisions
payoff_matrix ==
    ( <<"Defend", "DoNotAttack">>      :> <<3, 3>>  ) @@
    ( <<"Defend", "Attack">>           :> <<-2, 1>> ) @@
    ( <<"DoNotDefend", "Attack">>      :> <<-8, 8>> ) @@
    ( <<"DoNotDefend", "DoNotAttack">> :> <<4, 4>>  )

\* the values random.random() is sampled at, in hundredths of [0, 1)
RandomDraws == {0, 19, 20, 50, 79, 80, 99}

\* the index random.choice picks in a list of two
ChoiceDraws == {0, 1}

----------------------------------------------------------------------------
(* Python list slicing *)

\* seq[start:] of a Python list, for any integer start
PySliceFrom(seq, start) ==
    LET n  == Len(seq)
        lo == IF start < 0 THEN Max(n + start, 0) ELSE Min(start, n)
    IN  SubSeq(seq, lo + 1, n)

----------------------------------------------------------------------------
(* The policy objects.  One record shape serves the three classes; a field *)
(* a class does not have holds a filler.                                   *)

\* PassiveDefender.__init__
PassiveDefender(defense_prob) ==
    [cls |-> "PassiveDefender", defense_prob |-> defense_prob,
     is_defender |-> TRUE, memory_size |-> 0,
     role |-> "none", opponent_history |-> <<>>]

\* RandomAttacker has no __init__ and no fields
RandomAttacker ==
    [cls |-> "RandomAttacker", defense_prob |-> 0,
     is_defender |-> FALSE, memory_size |-> 0,
     role |-> "none", opponent_history |-> <<>>]

\* EnhancedTitForTat.__init__
EnhancedTitForTat(is_defender, memory_size) ==
    [cls |-> "EnhancedTitForTat", defense_prob |-> 0,
     is_defender |-> is_defender, memory_size |-> memory_size,
     role |-> IF is_defender THEN "defender" ELSE "attacker",
     opponent_history |-> <<>>]

\* any other callable handed to play_round; what it returns is its own affair
Callable ==
    [cls |-> "Callable", defense_prob |-> 0,
     is_defender |-> FALSE, memory_size |-> 0,
     role |-> "none", opponent_history |-> <<>>]

\* a method's result: the value returned, or the exception raised, and the
\* number of calls it made to the random source
Returned(value, n) == [ret |-> value, exc |-> "none", rng |-> n]
Raised(exception, n) == [ret |-> "none", exc |-> exception, rng |-> n]

\* PassiveDefender.make_decision with the two outcomes exchanged
PassiveDefender_make_decision_Inverted(self, hist, draw) ==
    [ret |-> IF draw < self.defense_prob THEN "DoNotDefend" ELSE "Defend",
     exc |-> "none", rng |-> 1]

\* PassiveDefender.make_decision
PassiveDefender_make_decision(self, hist, draw) ==
    Returned(IF draw < self.defense_prob THEN "Defend" ELSE "DoNotDefend", 1)

\* RandomAttacker.make_decision choosing as its docstring says, between
\* attacking and defending
RandomAttacker_make_decision_AttackOrDefend(self, hist, choice) ==
    [ret |-> <<"Attack", "Defend">>[choice + 1], exc |-> "none", rng |-> 1]

\* RandomAttacker.make_decision
RandomAttacker_make_decision(self, hist, choice) ==
    Returned(<<"Attack", "DoNotAttack">>[choice + 1], 1)

\* the index of the opponent's decision in a record's pair of decisions:
\* Python's 0 if not self.is_defender else 1, counted from 1 here
OpponentIndex(self) == IF ~self.is_defender THEN 1 ELSE 2

\* the condition of the generator in analyze_pattern's sum
IsAggressive(self, move) ==
    \/ self.is_defender /\ move = "Attack"
    \/ ~self.is_defender /\ move = "Defend"

\* sum(1 for move in recent_moves if ...)
RECURSIVE aggressive_count(_, _)
aggressive_count(self, recent_moves) ==
    IF recent_moves = <<>> THEN 0
    ELSE (IF IsAggressive(self, Head(recent_moves)) THEN 1 ELSE 0)
         + aggressive_count(self, Tail(recent_moves))

\* recent_moves_of with history[:memory_size], the oldest records
recent_moves_of_Oldest(self, hist) ==
    LET window == SubSeq(hist, 1, IF self.memory_size < Len(hist)
                                  THEN self.memory_size ELSE Len(hist))
    IN  [k \in 1..Len(window) |-> window[k].decisions[OpponentIndex(self)]]

\* the list comprehension of analyze_pattern
recent_moves_of(self, hist) ==
    LET window == PySliceFrom(hist, 0 - self.memory_size)
    IN  [k \in 1..Len(window) |-> window[k].decisions[OpponentIndex(self)]]

\* EnhancedTitForTat.analyze_pattern: None for an empty history, else the rate
\* aggressive_count / len(recent_moves), kept as numerator and denominator;
\* the division raises ZeroDivisionError when recent_moves is empty
analyze_pattern(self, hist) ==
    IF hist = <<>> THEN [kind |-> "None", num |-> 0, den |-> 0]
    ELSE LET recent_moves == recent_moves_of(self, hist)
         IN  IF Len(recent_moves) = 0
             THEN [kind |-> "ZeroDivisionError", num |-> 0, den |-> 0]
             ELSE [kind |-> "rate",
                   num |-> aggressive_count(self, recent_moves),
                   den |-> Len(recent_moves)]

\* the literals of make_decision, in hundredths
DefenderRateThreshold == 70
AttackerRateThreshold == 30
RelaxProbability == 20
HoldFireProbability == 80

\* aggressive_rate > 0.7
RateAbove(rate, hundredths) == 100 * rate.num > hundredths * rate.den
\* aggressive_rate < 0.3
RateBelow(rate, hundredths) == 100 * rate.num < hundredths * rate.den

\* FirstMove with the uncooperative action of each role
FirstMove_Uncooperative(self) ==
    [ret |-> IF self.is_defender THEN "DoNotDefend" ELSE "Attack",
     exc |-> "none", rng |-> 0]

\* the first round: if not history
FirstMove(self) ==
    Returned(IF self.is_defender THEN "Defend" ELSE "DoNotAttack", 0)

\* opponent_last_move_of with the index of the policy's own decision
opponent_last_move_of_Own(self, hist) ==
    hist[Len(hist)].decisions[IF self.is_defender THEN 1 ELSE 2]

\* history[-1]['decisions'][0 if not self.is_defender else 1]
opponent_last_move_of(self, hist) ==
    hist[Len(hist)].decisions[OpponentIndex(self)]

\* DefenderRule with and in place of or
DefenderRule_And(opponent_last_move, aggressive_rate, draw) ==
    IF /\ opponent_last_move = "Attack"
       /\ 100 * aggressive_rate.num > 70 * aggressive_rate.den
    THEN [ret |-> "Defend", exc |-> "none", rng |-> 0]
    ELSE [ret |-> IF draw < 20 THEN "DoNotDefend" ELSE "Defend",
          exc |-> "none", rng |-> 1]

\* the branch if self.is_defender
DefenderRule(opponent_last_move, aggressive_rate, draw) ==
    IF \/ opponent_last_move = "Attack"
       \/ RateAbove(aggressive_rate, DefenderRateThreshold)
    THEN Returned("Defend", 0)
    ELSE Returned(IF draw < RelaxProbability THEN "DoNotDefend" ELSE "Defend", 1)

\* AttackerRule with aggressive_rate > 0.3 in place of aggressive_rate < 0.3
AttackerRule_RateAbove(opponent_last_move, aggressive_rate, draw) ==
    IF \/ opponent_last_move = "DoNotDefend"
       \/ 100 * aggressive_rate.num > 30 * aggressive_rate.den
    THEN [ret |-> "Attack", exc |-> "none", rng |-> 0]
    ELSE [ret |-> IF draw < 80 THEN "DoNotAttack" ELSE "Attack",
          exc |-> "none", rng |-> 1]

\* the branch else (the policy is the attacker)
AttackerRule(opponent_last_move, aggressive_rate, draw) ==
    IF \/ opponent_last_move = "DoNotDefend"
       \/ RateBelow(aggressive_rate, AttackerRateThreshold)
    THEN Returned("Attack", 0)
    ELSE Returned(IF draw < HoldFireProbability THEN "DoNotAttack" ELSE "Attack", 1)

\* EnhancedTitForTat.make_decision; analyze_pattern runs first, so its
\* ZeroDivisionError leaves make_decision before anything else happens
EnhancedTitForTat_make_decision(self, hist, draw) ==
    IF hist = <<>>
    THEN FirstMove(self)
    ELSE LET aggressive_rate == analyze_pattern(self, hist)
             opponent_last_move == opponent_last_move_of(self, hist)
         IN  IF aggressive_rate.kind = "ZeroDivisionError"
             THEN Raised("ZeroDivisionError", 0)
             ELSE IF self.is_defender
                  THEN DefenderRule(opponent_last_move, aggressive_rate, draw)
                  ELSE AttackerRule(opponent_last_move, aggressive_rate, draw)

\* calling a strategy: the lambdas of main() forward to make_decision; any
\* other callable returns whatever it likes (value)
CallStrategy(strategy, hist, draw, choice, value) ==
    CASE strategy.cls = "PassiveDefender" ->
             PassiveDefender_make_decision(strategy, hist, draw)
      [] strategy.cls = "RandomAttacker" ->
             RandomAttacker_make_decision(strategy, hist, choice)
      [] strategy.cls = "EnhancedTitForTat" ->
             EnhancedTitForTat_make_decision(strategy, hist, draw)
      [] OTHER -> Returned(value, 0)

----------------------------------------------------------------------------
(* The session: NetworkSecurityGame *)

\* the strategies a caller of Spec hands to the engine
DefenseProbs == {0, 50, 100}
GameMemSizes == 1..2
DefenderStrategies ==
    {PassiveDefender(p) : p \in DefenseProbs}
      \cup {EnhancedTitForTat(TRUE, m) : m \in GameMemSizes} \cup {Callable}
AttackerStrategies ==
    {RandomAttacker}
      \cup {EnhancedTitForTat(FALSE, m) : m \in GameMemSizes} \cup {Callable}

\* what an arbitrary callable may return
CallableValues == DefenderActions \cup AttackerActions \cup {BadAction}

NoStrategy ==
    [cls |-> "none", defense_prob |-> 0, is_defender |-> FALSE,
     memory_size |-> 0, role |-> "none", opponent_history |-> <<>>]

\* nothing has been recorded of a call
NoCall == [name |-> "none", game |-> 0, n |-> 0, exc |-> "none"]

\* no driver runs in the specifications of one session or one policy
DriverIdle ==
    /\ heap = <<>>
    /\ games = <<>>
    /\ runs = <<>>
    /\ tape = <<>>
    /\ defender_strategies = NoStrategy
    /\ attacker_strategies = NoStrategy
    /\ last_call = NoCall

\* no policy call is under way in the specifications of the session
UnitIdle ==
    /\ u_self = NoStrategy
    /\ u_history = <<>>
    /\ u_draw = 0
    /\ u_pc = "off"
    /\ u_result = Returned("none", 0)
    /\ rng_calls = 0

\* NetworkSecurityGame.__init__, and a caller that has called nothing yet
GameInit ==
    /\ history = <<>>
    /\ scores = [defender |-> 0, attacker |-> 0]
    /\ pc = "idle"
    /\ call = "none"
    /\ outcome = "none"
    /\ strategy_a = NoStrategy
    /\ strategy_b = NoStrategy
    /\ rounds = 0
    /\ i = 0
    /\ start_len = 0
    /\ arg_a = <<>>
    /\ arg_b = <<>>
    /\ decision_a = "none"
    /\ decision_b = "none"
    /\ payoff_a = 0
    /\ payoff_b = 0

Init ==
    /\ GameInit
    /\ UnitIdle
    /\ DriverIdle

\* the frame of play_round is gone: its locals with it
DropFrame ==
    /\ arg_a' = <<>>
    /\ arg_b' = <<>>
    /\ decision_a' = "none"
    /\ decision_b' = "none"
    /\ payoff_a' = 0
    /\ payoff_b' = 0

\* an exception leaves play_round and, with no handler in run_game, the call
Propagate(exception) ==
    /\ pc' = "idle"
    /\ outcome' = exception
    /\ DropFrame
    /\ UNCHANGED <<history, scores, call, strategy_a, strategy_b,
                   rounds, i, start_len>>

\* the caller invokes run_game(strategy_a, strategy_b, rounds)
EnterRunGame(sa, sb, n) ==
    /\ pc = "idle"
    /\ pc' = "loop"
    /\ call' = "run_game"
    /\ outcome' = "none"
    /\ strategy_a' = sa
    /\ strategy_b' = sb
    /\ rounds' = n
    /\ i' = 0
    /\ start_len' = Len(history)
    /\ UNCHANGED <<history, scores, arg_a, arg_b,
                   decision_a, decision_b, payoff_a, payoff_b>>

run_game ==
    /\ \E sa \in DefenderStrategies, sb \in AttackerStrategies,
          n \in 0..(MaxHist - Len(history)) : EnterRunGame(sa, sb, n)
    /\ UNCHANGED <<unit_vars, driver_vars>>

\* the caller invokes play_round(strategy_a, strategy_b) itself
EnterPlayRound(sa, sb) ==
    /\ pc = "idle"
    /\ Len(history) < MaxHist
    /\ pc' = "L20"
    /\ call' = "play_round"
    /\ outcome' = "none"
    /\ strategy_a' = sa
    /\ strategy_b' = sb
    /\ rounds' = 0
    /\ i' = 0
    /\ start_len' = Len(history)
    /\ UNCHANGED <<history, scores, arg_a, arg_b,
                   decision_a, decision_b, payoff_a, payoff_b>>

play_round ==
    /\ \E sa \in DefenderStrategies, sb \in AttackerStrategies :
          EnterPlayRound(sa, sb)
    /\ UNCHANGED <<unit_vars, driver_vars>>

\* for _ in range(rounds): one more iteration, or the loop and the call end
LoopNext ==
    /\ pc = "loop"
    /\ i < rounds
    /\ pc' = "L20"
    /\ UNCHANGED <<history, scores, call, outcome, strategy_a, strategy_b,
                   rounds, i, start_len, arg_a, arg_b,
                   decision_a, decision_b, payoff_a, payoff_b>>
    /\ UNCHANGED <<unit_vars, driver_vars>>

LoopExit ==
    /\ pc = "loop"
    /\ i >= rounds
    /\ pc' = "idle"
    /\ outcome' = "returned"
    /\ UNCHANGED <<history, scores, call, strategy_a, strategy_b,
                   rounds, i, start_len, arg_a, arg_b,
                   decision_a, decision_b, payoff_a, payoff_b>>
    /\ UNCHANGED <<unit_vars, driver_vars>>

\* the list a strategy was called with, as the call would leave it were the
\* window cut in place (del history[:-self.memory_size]) where the code
\* slices a copy
argument_after_call_CutInPlace(strategy, hist) ==
    IF strategy.cls = "EnhancedTitForTat"
    THEN PySliceFrom(hist, 0 - strategy.memory_size)
    ELSE hist

\* the list a strategy was called with, as the call leaves it: no
\* make_decision assigns to an element of history or calls a method that
\* changes it (the slice and the comprehension of analyze_pattern build new
\* lists); a strategy is a function of the history
argument_after_call(strategy, hist) == hist

\* decision_a = strategy_a(self.history): the argument is the list
\* self.history itself, not a copy, and what the strategy does to it is done
\* to the session's history
DecideA ==
    /\ pc = "L20"
    /\ \E draw \in RandomDraws, choice \in ChoiceDraws, value \in CallableValues :
          LET r == CallStrategy(strategy_a, history, draw, choice, value)
          IN  IF r.exc # "none"
              THEN Propagate(r.exc)
              ELSE /\ decision_a' = r.ret
                   /\ arg_a' = history
                   /\ history' = argument_after_call(strategy_a, history)
                   /\ pc' = "L21"
                   /\ UNCHANGED <<scores, call, outcome, strategy_a,
                                  strategy_b, rounds, i, start_len, arg_b,
                                  decision_b, payoff_a, payoff_b>>
    /\ UNCHANGED <<unit_vars, driver_vars>>

\* DecideB with strategy_b called on the history extended by the defender's
\* decision of the round under way
DecideB_SeesDecisionA ==
    /\ pc = "L21"
    /\ \E draw \in RandomDraws, choice \in ChoiceDraws, value \in CallableValues :
          LET seen == Append(history,
                        [round     |-> Len(history) + 1,
                         decisions |-> <<decision_a, "DoNotAttack">>,
                         payoffs   |-> <<0, 0>>])
              r == CallStrategy(strategy_b, seen, draw, choice, value)
          IN  IF r.exc # "none"
              THEN Propagate(r.exc)
              ELSE /\ decision_b' = r.ret
                   /\ arg_b' = seen
                   /\ pc' = "L24"
                   /\ UNCHANGED <<history, scores, call, outcome, strategy_a,
                                  strategy_b, rounds, i, start_len, arg_a,
                                  decision_a, payoff_a, payoff_b>>
    /\ UNCHANGED <<unit_vars, driver_vars>>

\* decision_b = strategy_b(self.history)
DecideB ==
    /\ pc = "L21"
    /\ \E draw \in RandomDraws, choice \in ChoiceDraws, value \in CallableValues :
          LET r == CallStrategy(strategy_b, history, draw, choice, value)
          IN  IF r.exc # "none"
              THEN Propagate(r.exc)
              ELSE /\ decision_b' = r.ret
                   /\ arg_b' = history
                   /\ history' = argument_after_call(strategy_b, history)
                   /\ pc' = "L24"
                   /\ UNCHANGED <<scores, call, outcome, strategy_a,
                                  strategy_b, rounds, i, start_len, arg_a,
                                  decision_a, payoff_a, payoff_b>>
    /\ UNCHANGED <<unit_vars, driver_vars>>

\* Lookup after the decisions of the round have been put on record
Lookup_RecordsDecisionsFirst ==
    /\ pc = "L24"
    /\ LET key == <<decision_a, decision_b>>
       IN  IF key \notin DOMAIN payoff_matrix
           THEN /\ history' = Append(history,
                                  [round     |-> Len(history) + 1,
                                   decisions |-> key,
                                   payoffs   |-> <<0, 0>>])
                /\ pc' = "idle"
                /\ outcome' = "KeyError"
                /\ DropFrame
                /\ UNCHANGED <<scores, call, strategy_a, strategy_b,
                               rounds, i, start_len>>
           ELSE /\ payoff_a' = payoff_matrix[key][1]
                /\ payoff_b' = payoff_matrix[key][2]
                /\ pc' = "L27"
                /\ UNCHANGED <<history, scores, call, outcome, strategy_a,
                               strategy_b, rounds, i, start_len, arg_a, arg_b,
                               decision_a, decision_b>>
    /\ UNCHANGED <<unit_vars, driver_vars>>

\* Lookup with self.payoff_matrix.get(key, (0, 0)): a missing key costs nothing
Lookup_DefaultPayoff ==
    /\ pc = "L24"
    /\ LET key == <<decision_a, decision_b>>
           pay == IF key \in DOMAIN payoff_matrix
                  THEN payoff_matrix[key] ELSE <<0, 0>>
       IN  /\ payoff_a' = pay[1]
           /\ payoff_b' = pay[2]
           /\ pc' = "L27"
           /\ UNCHANGED <<history, scores, call, outcome, strategy_a,
                          strategy_b, rounds, i, start_len, arg_a, arg_b,
                          decision_a, decision_b>>
    /\ UNCHANGED <<unit_vars, driver_vars>>

\* payoff_a, payoff_b = self.payoff_matrix[(decision_a, decision_b)]
Lookup ==
    /\ pc = "L24"
    /\ LET key == <<decision_a, decision_b>>
       IN  IF key \notin DOMAIN payoff_matrix
           THEN Propagate("KeyError")
           ELSE /\ payoff_a' = payoff_matrix[key][1]
                /\ payoff_b' = payoff_matrix[key][2]
                /\ pc' = "L27"
                /\ UNCHANGED <<history, scores, call, outcome, strategy_a,
                               strategy_b, rounds, i, start_len, arg_a, arg_b,
                               decision_a, decision_b>>
    /\ UNCHANGED <<unit_vars, driver_vars>>

\* UpdateScores with = in place of +=
UpdateScores_Assign ==
    /\ pc = "L27"
    /\ scores' = [defender |-> payoff_a, attacker |-> payoff_b]
    /\ pc' = "L31"
    /\ UNCHANGED <<history, call, outcome, strategy_a, strategy_b, rounds, i,
                   start_len, arg_a, arg_b, decision_a, decision_b,
                   payoff_a, payoff_b>>
    /\ UNCHANGED <<unit_vars, driver_vars>>

\* self.scores['defender'] += payoff_a; self.scores['attacker'] += payoff_b
UpdateScores ==
    /\ pc = "L27"
    /\ scores' = [defender |-> scores.defender + payoff_a,
                  attacker |-> scores.attacker + payoff_b]
    /\ pc' = "L31"
    /\ UNCHANGED <<history, call, outcome, strategy_a, strategy_b, rounds, i,
                   start_len, arg_a, arg_b, decision_a, decision_b,
                   payoff_a, payoff_b>>
    /\ UNCHANGED <<unit_vars, driver_vars>>

\* NewRecord with the round counted from len(self.history) instead of
\* len(self.history) + 1
NewRecord_RoundFromLen ==
    [round     |-> Len(history),
     decisions |-> <<decision_a, decision_b>>,
     payoffs   |-> <<payoff_a, payoff_b>>]

\* the record play_round appends
NewRecord ==
    [round     |-> Len(history) + 1,
     decisions |-> <<decision_a, decision_b>>,
     payoffs   |-> <<payoff_a, payoff_b>>]

\* self.history.append({...}); play_round returns, to run_game's loop or to
\* the caller
AppendRecord ==
    /\ pc = "L31"
    /\ history' = Append(history, NewRecord)
    /\ DropFrame
    /\ IF call = "run_game"
       THEN /\ i' = i + 1
            /\ pc' = "loop"
            /\ UNCHANGED outcome
       ELSE /\ pc' = "idle"
            /\ outcome' = "returned"
            /\ UNCHANGED i
    /\ UNCHANGED <<scores, call, strategy_a, strategy_b, rounds, start_len>>
    /\ UNCHANGED <<unit_vars, driver_vars>>

\* one round, from the call of strategy_a to the append
RoundSteps ==
    \/ DecideA
    \/ DecideB
    \/ Lookup
    \/ UpdateScores
    \/ AppendRecord

Next ==
    \/ run_game
    \/ play_round
    \/ LoopNext
    \/ LoopExit
    \/ RoundSteps

Spec == Init /\ [][Next]_vars

----------------------------------------------------------------------------
(* Properties of the session *)

\* a call is inside play_round, past the call of strategy_a
PastDecideA == pc \in {"L21", "L24", "L27", "L31"}
\* ... and past the call of strategy_b
PastDecideB == pc \in {"L24", "L27", "L31"}

\* the strategies of the call are policies of the library in their own roles
LibraryStrategies == strategy_a.cls # "Callable" /\ strategy_b.cls # "Callable"

\* run_game has returned to the caller
RunGameReturned == pc = "idle" /\ call = "run_game" /\ outcome = "returned"

\* C1: the round indices of the history are 1..len(history) in increasing
\* order at every point of a run; a run_game call has appended i records
\* after i iterations; with policies that return valid actions run_game
\* returns, and when run_game(.., N) returns on a fresh session the history
\* holds exactly N records.
C1_HistoryAppend ==
    /\ \A k \in 1..Len(history) : history[k].round = k
    /\ call = "run_game" => Len(history) = start_len + i /\ i <= rounds
    /\ (pc = "idle" /\ call = "run_game" /\ LibraryStrategies)
           => outcome = "returned"
    /\ RunGameReturned => Len(history) = start_len + rounds
    /\ (RunGameReturned /\ start_len = 0) => Len(history) = rounds

C1_Witness ==
    /\ RunGameReturned
    /\ start_len = 0
    /\ rounds = 3
    /\ Len(history) = 3
    /\ history[3].round = 3

\* the sum of one payoff component over the records of a history
RECURSIVE SumPayoffs(_, _)
SumPayoffs(hist, role) ==
    IF hist = <<>> THEN 0
    ELSE hist[Len(hist)].payoffs[role]
         + SumPayoffs(SubSeq(hist, 1, Len(hist) - 1), role)

\* C2: score additivity.  Between rounds each cumulative score is the sum of
\* that role's payoff over the records of the history (0 and 0 for an empty
\* history); inside a round the scores are ahead of the history by the
\* payoffs of the record about to be appended; three rounds of
\* (Defend, Attack) give (-6, 3).
C2_ScoreAdditivity ==
    /\ pc # "L31" => /\ scores.defender = SumPayoffs(history, 1)
                     /\ scores.attacker = SumPayoffs(history, 2)
    /\ pc = "L31" => /\ scores.defender = SumPayoffs(history, 1) + payoff_a
                     /\ scores.attacker = SumPayoffs(history, 2) + payoff_b
    /\ (history = <<>> /\ pc # "L31")
           => scores = [defender |-> 0, attacker |-> 0]
    /\ ( /\ pc = "idle"
         /\ Len(history) = 3
         /\ \A k \in 1..3 : history[k].decisions = <<"Defend", "Attack">> )
           => scores = [defender |-> -6, attacker |-> 3]

C2_Witness ==
    /\ pc = "idle"
    /\ outcome = "returned"
    /\ Len(history) = 3
    /\ \A k \in 1..3 : history[k].decisions = <<"Defend", "Attack">>
    /\ scores = [defender |-> -6, attacker |-> 3]

\* what a strategy can return on a history, over all that the random source
\* (or, for another callable, the callable) can yield
PossibleDecisions(strategy, hist) ==
    CASE strategy.cls = "RandomAttacker" ->
             {CallStrategy(strategy, hist, 0, choice, "none").ret :
                 choice \in ChoiceDraws}
      [] strategy.cls \in {"PassiveDefender", "EnhancedTitForTat"} ->
             {CallStrategy(strategy, hist, draw, 0, "none").ret :
                 draw \in RandomDraws}
      [] OTHER ->
             {CallStrategy(strategy, hist, 0, 0, value).ret :
                 value \in CallableValues}

\* C3: in a round both policies are called with the same history, the
\* history as it is before the round: it holds the records 1..k-1 of the
\* round k under way, all of them appended (the call has completed i rounds
\* and the history is start_len + i long) and none of round k, so strategy_b
\* is not shown decision_a; the decisions held are decisions the policies
\* make on that history.
C3_DecisionsSeePriorHistory ==
    /\ PastDecideA =>
          /\ arg_a = history
          /\ decision_a \in PossibleDecisions(strategy_a, arg_a)
    /\ PastDecideB =>
          /\ arg_b = history
          /\ arg_b = arg_a
          /\ decision_b \in PossibleDecisions(strategy_b, arg_b)
          /\ \A k \in 1..Len(arg_b) : arg_b[k].round < Len(history) + 1
    /\ (pc \in {"L20", "L21", "L24", "L27", "L31"}) =>
          /\ Len(history) = start_len + i
          /\ \A k \in 1..Len(history) : history[k].round = k
    /\ pc = "L31" =>
          /\ NewRecord.round = Len(arg_a) + 1
          /\ NewRecord.round = Len(arg_b) + 1

C3_Witness ==
    /\ pc = "L31"
    /\ Len(history) = 2
    /\ strategy_a.cls = "EnhancedTitForTat"
    /\ strategy_b.cls = "EnhancedTitForTat"
    /\ arg_a = history
    /\ arg_b = history
    /\ decision_a = "DoNotDefend"
    /\ decision_b = "Attack"

\* the joint decision is a key of the payoff table
ValidKey == <<decision_a, decision_b>> \in DOMAIN payoff_matrix

\* C10: an invalid action is fatal.  The joint decision is no key of the
\* payoff table exactly when a policy returned a value outside its role's
\* domain; the lookup then raises KeyError, which ends the call with the
\* history, the scores and the count of completed iterations as they were:
\* nothing is recorded for the round, run_game plays no further round, and
\* every record ever appended carries the payoff the table gives.
C10_InvalidActionFatal ==
    /\ [](pc = "L24" =>
            (ValidKey <=> /\ decision_a \in DefenderActions
                          /\ decision_b \in AttackerActions))
    /\ [](pc \in {"L27", "L31"} => ValidKey)
    /\ [](outcome = "KeyError" =>
            /\ pc = "idle"
            /\ Len(history) = start_len + i
            /\ call = "run_game" => i < rounds)
    /\ [](\A k \in 1..Len(history) :
            /\ history[k].decisions \in DOMAIN payoff_matrix
            /\ history[k].payoffs = payoff_matrix[history[k].decisions])
    /\ [][(pc = "L24" /\ ~ValidKey) =>
            /\ pc' = "idle"
            /\ outcome' = "KeyError"
            /\ history' = history
            /\ scores' = scores
            /\ i' = i]_vars

C10_Witness ==
    /\ pc = "idle"
    /\ outcome = "KeyError"
    /\ call = "run_game"
    /\ rounds = 3
    /\ i = 1
    /\ Len(history) = 1

\* C13: the history is append-only.  A step that changes the history adds
\* exactly one record at its end, the record of the round, and leaves every
\* record before it in place and as it was; the calls of the two strategies,
\* which are handed the session's own list, leave it as it is, whichever of
\* PassiveDefender, RandomAttacker and EnhancedTitForTat they are.
C13_HistoryAppendOnly ==
    /\ [][history' # history =>
            /\ pc = "L31"
            /\ Len(history') = Len(history) + 1
            /\ SubSeq(history', 1, Len(history)) = history
            /\ history'[Len(history')] = NewRecord]_vars
    /\ [][(pc \in {"L20", "L21"}) => history' = history]_vars
    /\ [](PastDecideA => history = arg_a)
    /\ [](PastDecideB => history = arg_b)

C13_Witness ==
    /\ pc = "L24"
    /\ Len(history) = 2
    /\ strategy_a = EnhancedTitForTat(TRUE, 1)
    /\ strategy_b = EnhancedTitForTat(FALSE, 1)
    /\ arg_a = history
    /\ arg_b = history

\* the strategy is a defender policy, an attacker policy, of the library
LibraryDefender(strategy) ==
    \/ strategy.cls = "PassiveDefender"
    \/ strategy.cls = "EnhancedTitForTat" /\ strategy.is_defender
LibraryAttacker(strategy) ==
    \/ strategy.cls = "RandomAttacker"
    \/ strategy.cls = "EnhancedTitForTat" /\ ~strategy.is_defender

C20_FailedRoundChangesNothing ==
    /\ [][(pc \in {"L20", "L21", "L24"}) =>
            /\ history' = history
            /\ scores' = scores]_vars
    /\ [](outcome = "KeyError" =>
            /\ pc = "idle"
            /\ Len(history) = start_len + i
            /\ call = "play_round" => Len(history) = start_len
            /\ scores.defender = SumPayoffs(history, 1)
            /\ scores.attacker = SumPayoffs(history, 2)
            /\ \A k \in 1..Len(history) : history[k].round = k)
    /\ [][history' # history =>
            history'[Len(history')].round = Len(history) + 1]_vars

C20_Witness ==
    /\ pc = "idle"
    /\ outcome = "KeyError"
    /\ call = "play_round"
    /\ start_len = 2
    /\ Len(history) = 2
    /\ scores = [defender |-> -10, attacker |-> 9]

----------------------------------------------------------------------------
(* The end-to-end scenario: PassiveDefender(defense_prob = 1.0) against    *)
(* RandomAttacker, one run_game call on a fresh session.                   *)

e2e_run_game ==
    /\ call = "none"
    \* defense_prob = 1.0, in hundredths
    /\ EnterRunGame(PassiveDefender(100), RandomAttacker, E2ERounds)
    /\ UNCHANGED <<unit_vars, driver_vars>>

NextE2E ==
    \/ e2e_run_game
    \/ LoopNext
    \/ LoopExit
    \/ RoundSteps

SpecE2E == Init /\ [][NextE2E]_vars


\* the scenario's run_game call has returned
E2EReturned == pc = "idle" /\ call = "run_game" /\ outcome = "returned"

\* the rounds of a history in which the attacker attacked
AttackedRounds(hist) ==
    {k \in 1..Len(hist) : hist[k].decisions[2] = "Attack"}

\* C8: in the end-to-end scenario the defender's decision is Defend in every
\* round, whatever the random source yields; every recorded payoff pair is
\* (3, 3) or (-2, 1), the defender's payoff of a round is 3 or -2, and the
\* run returns with all its rounds recorded.
C8_E2EAlwaysDefend ==
    /\ PastDecideA => decision_a = "Defend"
    /\ pc \in {"L27", "L31"} => payoff_a \in {3, -2}
    /\ \A k \in 1..Len(history) :
          /\ history[k].decisions[1] = "Defend"
          /\ history[k].payoffs \in {<<3, 3>>, <<-2, 1>>}
          /\ history[k].payoffs[1] \in {3, -2}
    /\ outcome \in {"none", "returned"}
    /\ E2EReturned => Len(history) = E2ERounds

C8_Witness ==
    /\ E2EReturned
    /\ Len(history) = E2ERounds
    /\ \E j, k \in 1..Len(history) :
          /\ history[j].payoffs = <<3, 3>>
          /\ history[k].payoffs = <<-2, 1>>

\* C9 as stated: the defender's final score in the end-to-end scenario is
\* non-negative for every sequence of attacker choices.
C9_FinalScoreNonNegative ==
    E2EReturned => scores.defender >= 0

\* C9, amended: in the end-to-end scenario the defender's cumulative score
\* is 3 for each round without an attack and -2 for each round with one; it
\* is never below -2 times the rounds played (-2 * E2ERounds at the end),
\* and it is non-negative exactly when at most three fifths of the rounds
\* played were attacked.
C9_FinalScoreBoundedBelow ==
    pc # "L31" =>
        LET n == Len(history)
            a == Cardinality(AttackedRounds(history))
        IN  /\ scores.defender = 3 * (n - a) - 2 * a
            /\ scores.defender >= (0 - 2) * n
            /\ scores.defender >= (0 - 2) * E2ERounds
            /\ scores.defender >= 0 <=> 5 * a <= 3 * n

C9_Witness ==
    /\ E2EReturned
    /\ Len(history) = E2ERounds
    /\ Cardinality(AttackedRounds(history)) = E2ERounds
    /\ scores.defender = (0 - 2) * E2ERounds
    /\ scores.defender < 0

----------------------------------------------------------------------------
(* The policies on their own: one call of a method of EnhancedTitForTat on *)
(* a history the engine can have produced.                                 *)

\* the history the engine records for a sequence of joint decisions
HistoryOf(keys) ==
    [k \in 1..Len(keys) |->
        [round |-> k, decisions |-> keys[k], payoffs |-> payoff_matrix[keys[k]]]]

HistoriesUpTo(n) ==
    {HistoryOf(keys) : keys \in UNION {[1..k -> DOMAIN payoff_matrix] : k \in 0..n}}

\* memory_size is whatever the constructor was given
UnitMemSizes == (0 - 1)..MaxMem

UnitPolicies == {EnhancedTitForTat(d, m) : d \in BOOLEAN, m \in UnitMemSizes}

InitPolicy ==
    /\ GameInit
    /\ u_self \in UnitPolicies
    /\ u_history \in HistoriesUpTo(MaxLen)
    /\ u_draw \in RandomDraws
    /\ u_pc = "ready"
    /\ u_result = Returned("none", 0)
    /\ rng_calls = 0
    /\ DriverIdle

\* u_self.analyze_pattern(u_history)
call_analyze_pattern ==
    /\ u_pc = "ready"
    /\ u_result' = analyze_pattern(u_self, u_history)
    /\ u_pc' = "analyzed"
    /\ UNCHANGED <<u_self, u_history, u_draw, rng_calls>>
    /\ UNCHANGED <<game_vars, driver_vars>>

\* u_self.make_decision(u_history), the random source yielding u_draw
call_make_decision ==
    /\ u_pc = "ready"
    /\ LET r == EnhancedTitForTat_make_decision(u_self, u_history, u_draw)
       IN  /\ u_result' = r
           /\ rng_calls' = rng_calls + r.rng
    /\ u_pc' = "decided"
    /\ UNCHANGED <<u_self, u_history, u_draw>>
    /\ UNCHANGED <<game_vars, driver_vars>>

NextPolicy ==
    \/ call_analyze_pattern
    \/ call_make_decision

SpecPolicy == InitPolicy /\ [][NextPolicy]_vars

----------------------------------------------------------------------------
(* Properties of EnhancedTitForTat *)

\* make_decision has been called on a non-empty history by a policy whose
\* memory_size is a positive integer
DecidedOnHistory ==
    u_pc = "decided" /\ u_history # <<>> /\ u_self.memory_size >= 1

\* the records the policy looks back on: the last min(memory_size, len)
WindowOf(self, hist) ==
    LET w == IF self.memory_size <= Len(hist) THEN self.memory_size ELSE Len(hist)
    IN  (Len(hist) - w + 1)..Len(hist)

\* the records of a set in which the attacker attacked, the defender defended
AttacksIn(hist, ks) == Cardinality({k \in ks : hist[k].decisions[2] = "Attack"})
DefendsIn(hist, ks) == Cardinality({k \in ks : hist[k].decisions[1] = "Defend"})

LastAttackerMove(hist) == hist[Len(hist)].decisions[2]
LastDefenderMove(hist) == hist[Len(hist)].decisions[1]

\* C4: cooperative first move.  make_decision on an empty history returns
\* Defend for a defender and DoNotAttack for an attacker, for every
\* memory_size and every value the random source holds, and makes no call to
\* the random source.
C4_CooperativeFirstMove ==
    (u_pc = "decided" /\ u_history = <<>>) =>
        /\ u_result.exc = "none"
        /\ u_result.ret = IF u_self.is_defender THEN "Defend" ELSE "DoNotAttack"
        /\ u_result.rng = 0
        /\ rng_calls = 0

C4_Witness ==
    /\ u_pc = "decided"
    /\ u_history = <<>>
    /\ ~u_self.is_defender
    /\ u_self.memory_size = 3
    /\ u_draw = 99
    /\ u_result.ret = "DoNotAttack"
    /\ rng_calls = 0

\* C5: threshold determinism.  A defender with memory_size >= 1 deciding on
\* a history whose last record has attacker action Attack returns Defend
\* for every value of the draw, without a call to the random source; the
\* random source is called, once, exactly on the relaxed branch: the last
\* attacker action is not Attack and the share of attacks in the window is
\* not above 0.7.
C5_ThresholdDeterminism ==
    (DecidedOnHistory /\ u_self.is_defender) =>
        LET ks == WindowOf(u_self, u_history)
            relaxed == /\ LastAttackerMove(u_history) # "Attack"
                       /\ ~(10 * AttacksIn(u_history, ks) > 7 * Cardinality(ks))
        IN  /\ u_result.exc = "none"
            /\ LastAttackerMove(u_history) = "Attack" =>
                  /\ u_result.ret = "Defend"
                  /\ rng_calls = 0
            /\ rng_calls = (IF relaxed THEN 1 ELSE 0)
            /\ ~relaxed => u_result.ret = "Defend"

C5_Witness ==
    /\ DecidedOnHistory
    /\ u_self.is_defender
    /\ LastAttackerMove(u_history) = "Attack"
    /\ AttacksIn(u_history, WindowOf(u_self, u_history)) = 1
    /\ u_self.memory_size = 3
    /\ Len(u_history) = 3
    /\ u_draw = 0
    /\ u_result.ret = "Defend"
    /\ rng_calls = 0

\* C6: the attacker's rule.  An attacker with memory_size >= 1 deciding on a
\* non-empty history returns Attack for every value of the draw when the
\* defender's action in the last record is DoNotDefend or the share of
\* Defend actions in the window is below 0.3; otherwise it returns
\* DoNotAttack when the draw is below 0.8 and Attack when it is not.
C6_AttackerRule ==
    (DecidedOnHistory /\ ~u_self.is_defender) =>
        LET ks == WindowOf(u_self, u_history)
            exploit == \/ LastDefenderMove(u_history) = "DoNotDefend"
                       \/ 10 * DefendsIn(u_history, ks) < 3 * Cardinality(ks)
        IN  /\ u_result.exc = "none"
            /\ exploit => u_result.ret = "Attack"
            /\ ~exploit => u_result.ret =
                    (IF u_draw < 80 THEN "DoNotAttack" ELSE "Attack")

C6_Witness ==
    /\ DecidedOnHistory
    /\ ~u_self.is_defender
    /\ LastDefenderMove(u_history) = "Defend"
    /\ u_self.memory_size = 4
    /\ Len(u_history) = 4
    /\ DefendsIn(u_history, 1..4) = 1
    /\ u_draw = 0
    /\ u_result.ret = "Attack"

\* C7: the windowing boundary.  For a non-empty history and memory_size
\* m >= 1, analyze_pattern returns the quotient whose divisor is
\* min(m, len(history)) and whose dividend is the number of aggressive
\* actions of the opponent (the attacker's Attack for a defender, the
\* defender's Defend for an attacker) in the last min(m, len(history))
\* records; with m = 3 and a history of 1 or 2 records the divisor is 1 or 2.
C7_WindowingBoundary ==
    (u_pc = "analyzed" /\ u_history # <<>> /\ u_self.memory_size >= 1) =>
        LET ks == WindowOf(u_self, u_history)
        IN  /\ u_result.kind = "rate"
            /\ u_result.den = Cardinality(ks)
            /\ u_result.den = Min(u_self.memory_size, Len(u_history))
            /\ u_result.num = (IF u_self.is_defender
                               THEN AttacksIn(u_history, ks)
                               ELSE DefendsIn(u_history, ks))
            /\ (u_self.memory_size = 3 /\ Len(u_history) \in {1, 2})
                  => u_result.den = Len(u_history)

C7_Witness ==
    /\ u_pc = "analyzed"
    /\ u_self.memory_size = 3
    /\ u_self.is_defender
    /\ Len(u_history) = 2
    /\ u_result.kind = "rate"
    /\ u_result.den = 2
    /\ u_result.num = 1

\* make_decision returned on a non-empty history
ReturnedOnHistory ==
    u_pc = "decided" /\ u_history # <<>> /\ u_result.exc = "none"

\* the opponent's last action alone calls for the deterministic branch
LastActionDecides ==
    IF u_self.is_defender
    THEN LastAttackerMove(u_history) = "Attack"
    ELSE LastDefenderMove(u_history) = "DoNotDefend"

\* the decision was made on the deterministic branch although the
\* opponent's last action did not call for it: a threshold took effect
ThresholdTookEffect ==
    ReturnedOnHistory /\ u_result.rng = 0 /\ ~LastActionDecides

\* C19 as stated: with memory_size = 3 the choice between the deterministic
\* and the random branch is determined by the opponent's last action alone,
\* and a threshold takes effect only for memory_size >= 4.
C19_ThresholdsNeedMemoryFour ==
    /\ (ReturnedOnHistory /\ u_self.memory_size = 3)
          => (u_result.rng = 0 <=> LastActionDecides)
    /\ ReturnedOnHistory => (LastActionDecides => u_result.rng = 0)
    /\ ThresholdTookEffect => u_self.memory_size >= 4

\* C19 for the memory sizes the design allows: for memory_size in 1..3 the
\* branch is determined by the opponent's last action alone, and among the
\* positive memory sizes a threshold takes effect only from 4 on.
C19_PositiveMemorySizes ==
    /\ (ReturnedOnHistory /\ u_self.memory_size \in 1..3)
          => (u_result.rng = 0 <=> LastActionDecides)
    /\ (ThresholdTookEffect /\ u_self.memory_size >= 1)
          => u_self.memory_size >= 4

\* a threshold takes effect for memory_size = 4
C19_EffectAtFour ==
    /\ ThresholdTookEffect
    /\ u_self.memory_size = 4
    /\ u_self.is_defender
    /\ u_result.ret = "Defend"

----------------------------------------------------------------------------
(* The life of one policy object: it is constructed with whatever the      *)
(* caller passes, then its methods are called any number of times, on the  *)
(* history and the draw under observation or on some other history.        *)

\* what a caller may pass as defense_prob (hundredths) and as memory_size
ConfigProbs == {0 - 50, 0, 50, 100, 150}
ConfigMemSizes == (0 - 1)..2

\* histories of the calls made between two observed calls
OtherHistories == HistoriesUpTo(1)
\* and the draws of those calls: below and above every probability compared
OtherDraws == {0, 99}

InitObjects ==
    /\ GameInit
    /\ u_self = NoStrategy
    /\ u_history \in HistoriesUpTo(MaxHist)
    /\ u_draw \in RandomDraws
    /\ u_pc = "new"
    /\ u_result = Returned("none", 0)
    /\ rng_calls = 0
    /\ DriverIdle

\* PassiveDefender(defense_prob): __init__ stores its argument
construct_PassiveDefender ==
    /\ u_pc = "new"
    /\ \E p \in ConfigProbs : u_self' = PassiveDefender(p)
    /\ u_pc' = "ready"
    /\ UNCHANGED <<u_history, u_draw, u_result, rng_calls>>
    /\ UNCHANGED <<game_vars, driver_vars>>

\* RandomAttacker()
construct_RandomAttacker ==
    /\ u_pc = "new"
    /\ u_self' = RandomAttacker
    /\ u_pc' = "ready"
    /\ UNCHANGED <<u_history, u_draw, u_result, rng_calls>>
    /\ UNCHANGED <<game_vars, driver_vars>>

\* EnhancedTitForTat(is_defender, memory_size): __init__ stores its arguments
construct_EnhancedTitForTat ==
    /\ u_pc = "new"
    /\ \E d \in BOOLEAN, m \in ConfigMemSizes : u_self' = EnhancedTitForTat(d, m)
    /\ u_pc' = "ready"
    /\ UNCHANGED <<u_history, u_draw, u_result, rng_calls>>
    /\ UNCHANGED <<game_vars, driver_vars>>

\* the object after make_decision, were the opponent's last move kept in
\* self.opponent_history
self_after_make_decision_Remembers(self, hist) ==
    IF self.cls = "EnhancedTitForTat" /\ hist # <<>>
    THEN [self EXCEPT !.opponent_history =
              Append(@, hist[Len(hist)].decisions[IF self.is_defender THEN 2 ELSE 1])]
    ELSE self

\* the object after make_decision(hist): no make_decision assigns to a
\* field of self or calls a method that changes one
self_after_make_decision(self, hist) == self

\* the object after analyze_pattern(hist): recent_moves and the counts are
\* locals, no field of self is written
self_after_analyze_pattern(self, hist) == self

\* the object exists
Constructed == u_pc \in {"ready", "decided", "analyzed"}

\* u_self.make_decision(u_history), the random source yielding u_draw
obj_make_decision ==
    /\ Constructed
    /\ rng_calls < MaxRngCalls
    /\ \E choice \in ChoiceDraws :
          LET r == CallStrategy(u_self, u_history, u_draw, choice, "none")
          IN  /\ u_result' = r
              /\ rng_calls' = rng_calls + r.rng
    /\ u_self' = self_after_make_decision(u_self, u_history)
    /\ u_pc' = "decided"
    /\ UNCHANGED <<u_history, u_draw>>
    /\ UNCHANGED <<game_vars, driver_vars>>

\* u_self.analyze_pattern(u_history)
obj_analyze_pattern ==
    /\ Constructed
    /\ u_self.cls = "EnhancedTitForTat"
    /\ u_result' = analyze_pattern(u_self, u_history)
    /\ u_self' = self_after_analyze_pattern(u_self, u_history)
    /\ u_pc' = "analyzed"
    /\ UNCHANGED <<u_history, u_draw, rng_calls>>
    /\ UNCHANGED <<game_vars, driver_vars>>

\* a call of make_decision on some other history, with some other draw; its
\* result is dropped
obj_other_decision ==
    /\ Constructed
    /\ rng_calls < MaxRngCalls
    /\ \E hist \in OtherHistories, draw \in OtherDraws :
          LET r == CallStrategy(u_self, hist, draw, 0, "none")
          IN  /\ rng_calls' = rng_calls + r.rng
              /\ u_self' = self_after_make_decision(u_self, hist)
    /\ u_pc' = "ready"
    /\ UNCHANGED <<u_history, u_draw, u_result>>
    /\ UNCHANGED <<game_vars, driver_vars>>

NextObjects ==
    \/ construct_PassiveDefender
    \/ construct_RandomAttacker
    \/ construct_EnhancedTitForTat
    \/ obj_make_decision
    \/ obj_analyze_pattern
    \/ obj_other_decision

SpecObjects == InitObjects /\ [][NextObjects]_vars

\* the configuration of a policy object is one the design allows
ValidConfiguration(self) ==
    /\ self.cls = "PassiveDefender" => self.defense_prob \in 0..100
    /\ self.cls = "EnhancedTitForTat" => self.memory_size >= 1

\* C11: a configuration error is rejected at construction.  Constructing
\* PassiveDefender with defense_prob outside [0, 1] or EnhancedTitForTat
\* with memory_size <= 0 fails, so that no such object ever exists and
\* make_decision is never called on one.
C11_ConfigurationRejected ==
    Constructed => ValidConfiguration(u_self)

\* the object is an EnhancedTitForTat
IsTitForTat == Constructed /\ u_self.cls = "EnhancedTitForTat"

\* C17: EnhancedTitForTat keeps no state of its own.  No call of
\* make_decision or analyze_pattern changes a field of the object
\* (is_defender, memory_size, role, opponent_history): the object is at all
\* times as its constructor left it; and a decision on a history with a
\* draw is the decision a newly constructed object of the same
\* configuration makes on them, however many decisions went before.
C17_StatelessExceptHistory ==
    /\ [](IsTitForTat =>
            u_self = EnhancedTitForTat(u_self.is_defender, u_self.memory_size))
    /\ [](IsTitForTat => u_self.opponent_history = <<>>)
    /\ [][Constructed => u_self' = u_self]_vars
    /\ []((IsTitForTat /\ u_pc = "decided") =>
            u_result = EnhancedTitForTat_make_decision(
                           EnhancedTitForTat(u_self.is_defender, u_self.memory_size),
                           u_history, u_draw))

C17_Witness ==
    /\ IsTitForTat
    /\ u_pc = "decided"
    /\ u_self.memory_size = 2
    /\ Len(u_history) = 3
    /\ rng_calls = 2
    /\ u_result.rng = 1
    /\ u_result.ret = "DoNotDefend"

----------------------------------------------------------------------------
(* A session defended by EnhancedTitForTat: every call hands the engine an *)
(* EnhancedTitForTat(is_defender = True) of some memory_size >= 1 and any  *)
(* attacker.                                                               *)

TitForTatDefenders == {EnhancedTitForTat(TRUE, m) : m \in 1..MaxMem}

tft_run_game ==
    /\ \E sa \in TitForTatDefenders, sb \in AttackerStrategies,
          n \in 0..(MaxLen - Len(history)) : EnterRunGame(sa, sb, n)
    /\ UNCHANGED <<unit_vars, driver_vars>>

tft_play_round ==
    /\ Len(history) < MaxLen
    /\ \E sa \in TitForTatDefenders, sb \in AttackerStrategies :
          /\ pc = "idle"
          /\ pc' = "L20"
          /\ call' = "play_round"
          /\ outcome' = "none"
          /\ strategy_a' = sa
          /\ strategy_b' = sb
          /\ rounds' = 0
          /\ i' = 0
          /\ start_len' = Len(history)
          /\ UNCHANGED <<history, scores, arg_a, arg_b,
                         decision_a, decision_b, payoff_a, payoff_b>>
    /\ UNCHANGED <<unit_vars, driver_vars>>

NextTitForTat ==
    \/ tft_run_game
    \/ tft_play_round
    \/ LoopNext
    \/ LoopExit
    \/ RoundSteps

SpecTitForTat == Init /\ [][NextTitForTat]_vars

\* C18: in a session defended by EnhancedTitForTat, whatever the attacker
\* does, the defender's recorded decision is Defend in round 1 and in every
\* round that follows a round with an attack; so the defender's payoff -8
\* is recorded only in a round k >= 2 whose preceding round had no attack.
\* The decision held for the round under way obeys the same rule.
C18_DefendAfterAttack ==
    /\ Len(history) >= 1 => history[1].decisions[1] = "Defend"
    /\ \A k \in 2..Len(history) :
          history[k - 1].decisions[2] = "Attack"
              => history[k].decisions[1] = "Defend"
    /\ \A k \in 1..Len(history) :
          history[k].payoffs[1] = -8
              => /\ k >= 2
                 /\ history[k - 1].decisions[2] = "DoNotAttack"
    /\ PastDecideA =>
          /\ history = <<>> => decision_a = "Defend"
          /\ (history # <<>> /\ history[Len(history)].decisions[2] = "Attack")
                => decision_a = "Defend"

C18_Witness ==
    /\ pc = "idle"
    /\ Len(history) = 3
    /\ history[1].decisions = <<"Defend", "Attack">>
    /\ history[2].decisions = <<"Defend", "DoNotAttack">>
    /\ history[3].decisions = <<"DoNotDefend", "Attack">>
    /\ history[3].payoffs[1] = -8

----------------------------------------------------------------------------
(* The experiment driver: several NetworkSecurityGame objects and one pair *)
(* of policy instances reused across them, as in main().  The objects a    *)
(* session holds live on a heap, so that two sessions holding the same     *)
(* list or dict would show.  Every session is played on the same sequence  *)
(* of values of the random source, from its start: the condition under     *)
(* which two ways of driving a session are compared.                       *)

\* sessions the driver constructs
MaxGames == 2
\* rounds the driver asks of one session
MaxDriverRounds == 2
\* the values the random source yields, in hundredths of [0, 1)
DriverDraws == {10, 60}
\* a round makes at most two calls to the random source
TapeLen == 2 * MaxDriverRounds

\* the two pairs of policies main() plays, and a pair of EnhancedTitForTat
DriverPairs ==
    { <<EnhancedTitForTat(TRUE, 3), RandomAttacker>>,
      <<PassiveDefender(50), RandomAttacker>>,
      <<EnhancedTitForTat(TRUE, 3), EnhancedTitForTat(FALSE, 3)>> }

InitDriver ==
    /\ GameInit
    /\ UnitIdle
    /\ heap = <<>>
    /\ games = <<>>
    /\ runs = <<>>
    /\ tape \in [1..TapeLen -> DriverDraws]
    /\ \E pair \in DriverPairs :
          /\ defender_strategies = pair[1]
          /\ attacker_strategies = pair[2]
    /\ last_call = NoCall

\* NetworkSecurityGame.__init__ with history a class attribute: every
\* session holds the list of the first
NetworkSecurityGame_init_ClassLevelHistory(h) ==
    [heap |-> h \o <<payoff_matrix, <<>>, [defender |-> 0, attacker |-> 0]>>,
     self |-> [payoff_matrix |-> Len(h) + 1,
               history       |-> 2,
               scores        |-> Len(h) + 3]]

\* NetworkSecurityGame.__init__: a new dict, a new list and a new dict
NetworkSecurityGame_init(h) ==
    [heap |-> h \o <<payoff_matrix, <<>>, [defender |-> 0, attacker |-> 0]>>,
     self |-> [payoff_matrix |-> Len(h) + 1,
               history       |-> Len(h) + 2,
               scores        |-> Len(h) + 3]]

\* a strategy called with the random source at position cursor of the tape:
\* random.random() yields the next value, random.choice the first or the
\* second element by it
call_strategy(strategy, hist, cursor) ==
    CallStrategy(strategy, hist, tape[cursor + 1],
                 IF tape[cursor + 1] < 50 THEN 0 ELSE 1, "none")

\* a lookup that takes the entry out of the table
payoff_matrix_after_lookup_Pops(table, key) ==
    [k \in (DOMAIN table) \ {key} |-> table[k]]

\* self.payoff_matrix[(decision_a, decision_b)] reads the table
payoff_matrix_after_lookup(table, key) == table

\* play_round on the session self, from the state st of the heap, the
\* random source and the two policy instances
play_round_of(st, self) ==
    LET st0    == [st EXCEPT !.played = @ + 1]
        hist_a == st0.heap[self.history]
        ra     == call_strategy(st0.defender, hist_a, st0.cursor)
        st1    == [st0 EXCEPT
                     !.heap[self.history] =
                         argument_after_call(st0.defender, hist_a),
                     !.cursor = @ + ra.rng,
                     !.defender = self_after_make_decision(@, hist_a)]
        hist_b == st1.heap[self.history]
        rb     == call_strategy(st1.attacker, hist_b, st1.cursor)
        st2    == [st1 EXCEPT
                     !.heap[self.history] =
                         argument_after_call(st1.attacker, hist_b),
                     !.cursor = @ + rb.rng,
                     !.attacker = self_after_make_decision(@, hist_b)]
        key    == <<ra.ret, rb.ret>>
        table  == st2.heap[self.payoff_matrix]
        payoff == table[key]
        st3    == [st2 EXCEPT
                     !.heap[self.payoff_matrix] =
                         payoff_matrix_after_lookup(table, key)]
        st4    == [st3 EXCEPT
                     !.heap[self.scores] =
                         [defender |-> @.defender + payoff[1],
                          attacker |-> @.attacker + payoff[2]]]
        st5    == [st4 EXCEPT
                     !.heap[self.history] =
                         Append(@, [round     |-> Len(@) + 1,
                                    decisions |-> key,
                                    payoffs   |-> payoff])]
    IN  IF ra.exc # "none" THEN [st1 EXCEPT !.exc = ra.exc]
        ELSE IF rb.exc # "none" THEN [st2 EXCEPT !.exc = rb.exc]
        ELSE IF key \notin DOMAIN table THEN [st2 EXCEPT !.exc = "KeyError"]
        ELSE st5

\* len(range(1, rounds))
range_len_FromOne(n) == IF n > 1 THEN n - 1 ELSE 0

\* len(range(rounds)): the iterations of run_game's loop
range_len(n) == IF n > 0 THEN n ELSE 0

\* k iterations of run_game's loop; an exception ends the loop
RECURSIVE run_game_loop(_, _, _)
run_game_loop(st, self, k) ==
    IF k = 0 \/ st.exc # "none" THEN st
    ELSE run_game_loop(play_round_of(st, self), self, k - 1)

\* run_game on the session self
run_game_of(st, self, n) == run_game_loop(st, self, range_len(n))

\* the state a call on session g starts from
StateOf(g) ==
    [heap     |-> heap,
     cursor   |-> runs[g].cursor,
     played   |-> runs[g].played,
     exc      |-> "none",
     defender |-> defender_strategies,
     attacker |-> attacker_strategies]

\* the call on session g has ended in st; it asked for n rounds
EndCall(g, st, name, n) ==
    /\ heap' = st.heap
    /\ runs' = [runs EXCEPT ![g] =
                   [cursor    |-> st.cursor,
                    played    |-> st.played,
                    requested |-> @.requested + n]]
    /\ defender_strategies' = st.defender
    /\ attacker_strategies' = st.attacker
    /\ last_call' = [name |-> name, game |-> g, n |-> n, exc |-> st.exc]
    /\ UNCHANGED <<games, tape>>

\* game = NetworkSecurityGame()
new_game ==
    /\ Len(games) < MaxGames
    /\ LET r == NetworkSecurityGame_init(heap) IN
          /\ heap' = r.heap
          /\ games' = Append(games, r.self)
    /\ runs' = Append(runs, [cursor |-> 0, played |-> 0, requested |-> 0])
    /\ last_call' = [name |-> "__init__", game |-> Len(games) + 1,
                     n |-> 0, exc |-> "none"]
    /\ UNCHANGED <<tape, defender_strategies, attacker_strategies>>
    /\ UNCHANGED <<game_vars, unit_vars>>

\* game.play_round(defender, attacker) on one of the sessions
driver_play_round ==
    /\ \E g \in 1..Len(games) :
          /\ runs[g].requested < MaxDriverRounds
          /\ EndCall(g, play_round_of(StateOf(g), games[g]),
                     "play_round", 1)
    /\ UNCHANGED <<game_vars, unit_vars>>

\* game.run_game(defender, attacker, rounds=n) on one of the sessions but
\* the first, which is played by single play_round calls only: the session
\* the others are compared with
driver_run_game ==
    /\ \E g \in 2..Len(games) :
          \E n \in 0..(MaxDriverRounds - runs[g].requested) :
             EndCall(g, run_game_of(StateOf(g), games[g], n),
                     "run_game", n)
    /\ UNCHANGED <<game_vars, unit_vars>>

NextDriver ==
    \/ new_game
    \/ driver_play_round
    \/ driver_run_game

SpecDriver == InitDriver /\ [][NextDriver]_vars

\* the list and the scores session g holds
SessionHistory(g) == heap[games[g].history]
SessionScores(g) == heap[games[g].scores]

\* C12: run_game(a, b, N) is N sequential play_round(a, b) calls.  On every
\* session play_round has been invoked exactly as many times as rounds were
\* asked for, by play_round calls and by the N of run_game calls together;
\* two sessions started alike and played on the same sequence of draws for
\* the same number of rounds have the same history, the same scores and the
\* random source at the same position, however the rounds were asked for;
\* and run_game with N = 0 leaves the heap and every session as they were.
C12_RunGameIsRepeatedPlayRound ==
    /\ [](\A g \in 1..Len(games) : runs[g].played = runs[g].requested)
    /\ [](\A g1, g2 \in 1..Len(games) :
             runs[g1].requested = runs[g2].requested
                => /\ SessionHistory(g1) = SessionHistory(g2)
                   /\ SessionScores(g1) = SessionScores(g2)
                   /\ runs[g1].cursor = runs[g2].cursor)
    /\ [][(last_call'.name = "run_game" /\ last_call'.n = 0)
             => /\ heap' = heap
                /\ games' = games
                /\ runs' = runs]_vars

C12_Witness ==
    /\ Len(games) = 2
    /\ runs[1].requested = 2
    /\ last_call = [name |-> "run_game", game |-> 2, n |-> 2, exc |-> "none"]
    /\ runs[2].requested = 2
    /\ Len(SessionHistory(1)) = 2
    /\ Len(SessionHistory(2)) = 2
    /\ SessionHistory(2)[1].decisions # SessionHistory(2)[2].decisions

\* C15: session independence.  A session just constructed has an empty
\* history and both scores 0, whatever the sessions before it have played;
\* no two sessions hold the same table, list or scores; and a call on one
\* session, or the construction of a new one, leaves the history and the
\* scores of every other session as they were, the policy instances being
\* the same for all sessions.
C15_SessionIndependence ==
    /\ [](last_call.name = "__init__"
             => /\ SessionHistory(last_call.game) = <<>>
                /\ SessionScores(last_call.game)
                      = [defender |-> 0, attacker |-> 0])
    /\ [](\A g1, g2 \in 1..Len(games) :
             g1 # g2
                => {games[g1].payoff_matrix, games[g1].history,
                    games[g1].scores}
                   \cap {games[g2].payoff_matrix, games[g2].history,
                         games[g2].scores} = {})
    /\ [][\A g \in 1..Len(games) :
             g # last_call'.game
                => /\ heap'[games[g].history] = heap[games[g].history]
                   /\ heap'[games[g].scores] = heap[games[g].scores]]_vars

C15_Witness ==
    /\ Len(games) = 2
    /\ Len(SessionHistory(1)) = 2
    /\ last_call = [name |-> "play_round", game |-> 2, n |-> 1,
                    exc |-> "none"]
    /\ Len(SessionHistory(2)) = 1
    /\ SessionScores(1) # SessionScores(2)

\* C16: payoff completeness.  The table of every session has an entry for
\* each of the four combinations of {Defend, DoNotDefend} and
\* {Attack, DoNotAttack} and for no other key, and at every moment it is the
\* table the constructor built: no play_round and no run_game modifies it.
C16_PayoffTableCompleteAndFixed ==
    \A g \in 1..Len(games) :
        LET table == heap[games[g].payoff_matrix] IN
        /\ DOMAIN table = DefenderActions \X AttackerActions
        /\ \A key \in DefenderActions \X AttackerActions :
              table[key] = payoff_matrix[key]

C16_Witness ==
    /\ Len(games) = 2
    /\ last_call = [name |-> "run_game", game |-> 2, n |-> 2, exc |-> "none"]
    /\ Len(SessionHistory(2)) = 2
    /\ SessionHistory(2)[1].decisions = <<"Defend", "Attack">>
    /\ SessionHistory(2)[2].decisions = <<"DoNotDefend", "DoNotAttack">>
    /\ heap[games[2].payoff_matrix][<<"Defend", "Attack">>] = <<0 - 2, 1>>

====
